---- MODULE Spec2Model ----
(***************************************************************************)
(* gnn-spatial-exploration: the R graph builder (distance matrix loop,     *)
(* nng + as.undirected, neighbour sanity check) and the Python notebook    *)
(* (degree one-hot transform, train/test masks, GCN training loop,         *)
(* evaluation cell, linear baseline).                                      *)
(*                                                                         *)
(* SpecR     : the graph builder, one run per location set.                *)
(* SpecFeat  : the degree / OneHotDegree cell over every small graph.      *)
(* Spec      : the notebook run from loading to the baseline cell.         *)
(***************************************************************************)
EXTENDS Integers, Sequences, FiniteSets, TLC

VARIABLES
    \* ---- R graph builder ----
    rpc,          \* position in the R script
    n,            \* n <- nrow(p)
    LAT,          \* p$LAT after the shuffle (degrees, all on one meridian)
    distances,    \* n x n matrix, entries in 1/1000 km
    ii, jj,       \* loop variables of the distance loop
    A,            \* adjacency matrix built inside nng
    g,            \* edge list of the undirected graph, pairs <<i,j>>, i <= j
    sanity,       \* value of the sanity-check expression on vertex 1
    \* ---- Python notebook ----
    pc,           \* the next statement of the notebook
    num_nodes,    \* g.num_nodes
    edge_index,   \* g.edge_index as a sequence of <<source, target>>
    features,     \* the scaled altitudes as loaded (raw/features.csv)
    x,            \* g.x, one row per vertex
    y,            \* g.y, the targets
    train_size,   \* second argument of make_train_test_masks, in tenths
    train_mask,   \* g.train_mask
    test_mask,    \* g.test_mask
    training,     \* model.training
    params,       \* model parameters: [version |-> optimizer steps applied, w |-> weight]
    grad,         \* the .grad buffers of the parameters
    epo,          \* loop variable of the training loop
    pred,         \* the notebook variable pred
    loss,         \* the notebook variable loss
    log,          \* the epochs whose loss was printed
    calls,        \* how often zero_grad, forward, backward and step have run
    twin,         \* a second run on the same graph, masks and seed with its own
                  \* targets: [y, params, grad, pred, loss]
    test_pred,    \* the notebook variable test_pred
    test_loss,    \* the notebook variable test_loss
    baseline      \* what the linear-regression cell fitted, predicted and scored

varsR == <<rpc, n, LAT, distances, ii, jj, A, g, sanity>>
varsG == <<num_nodes, edge_index, features, x, y>>
varsM == <<train_size, train_mask, test_mask>>
varsT == <<training, params, grad, epo, pred, loss, log, calls, twin>>
varsE == <<test_pred, test_loss, baseline>>
varsPy == <<pc, varsG, varsM, varsT, varsE>>
vars == <<varsR, varsPy>>

\* ------------------------------------------------------------------ bounds
MaxN == 7         \* largest number of locations
MaxLat == 2       \* latitudes are drawn from 0..MaxLat degrees
MaxGraphNodes == 4  \* SpecFeat: every simple graph on up to this many vertices
MaxNodes == 5     \* Spec: largest g.num_nodes of a notebook run
NumEpochs == 3    \* stands for the 5000 of range(5000)
LogEvery == 2     \* stands for the 500 of epo % 500
MaxTrainNodes == 3  \* SpecTrain: largest g.num_nodes of a pair of runs
Modulus == 5      \* weights, outputs and gradients are kept modulo this
InitialWeight == 1  \* the weight the seeded initialisation gives the model

\* --------------------------------------------------------------- constants
K == 5                      \* nng(dx=distances, k=5, ...)
KmScale == 1000             \* distance_m / 1000.0; entries are kept in 1/1000 km
MetersPerDegree == 111319   \* distHaversine along a meridian, r = 6378137 m
Meridian == 0               \* the common longitude of the modelled locations

Abs(a) == IF a < 0 THEN -a ELSE a
Min2(a, b) == IF a < b THEN a ELSE b
Max2(a, b) == IF a < b THEN b ELSE a
Range(s) == {s[i] : i \in DOMAIN s}

\* ------------------------------------------------------- distance function
\* geosphere::distHaversine in metres.  For two points of equal longitude the
\* haversine formula reduces to r * |lat1 - lat2| (in radians): the model is
\* exact for locations on one meridian and is only used there.
distHaversine(long1, lat1, long2, lat2) == Abs(lat1 - lat2) * MetersPerDegree

\* get_geo_distance(..., units='km'): distance_m / 1000.0, kept as a
\* fixed-point number of 1/1000 km.
get_geo_distance(long1, lat1, long2, lat2) ==
    (distHaversine(long1, lat1, long2, lat2) * KmScale) \div 1000

\* matrix(nrow = n, ncol = n, data = -1)
NewMatrix(m) == [c \in (1..m) \X (1..m) |-> (-1) * KmScale]

\* ------------------------------------------------------------ distance loop
\* if(ii == jj) distances[ii, ii] <- 0.0
DiagCell(dist, i) == [dist EXCEPT ![<<i, i>>] = 0]

PairCellMissingMirror(dist, i, j, d) == [dist EXCEPT ![<<i, j>>] = d]

\* else { distances[ii, jj] <- get_geo_distance(...); distances[jj, ii] <- distances[ii, jj] }
PairCell(dist, i, j, d) == [dist EXCEPT ![<<i, j>>] = d, ![<<j, i>>] = d]

RECURSIVE InnerLoop(_, _, _)
\* for(jj in 1:ii) { ... }: the matrix after the iterations jj = j, ..., i
InnerLoop(dist, i, j) ==
    IF j > i THEN dist
    ELSE InnerLoop(IF i = j
                   THEN DiagCell(dist, i)
                   ELSE PairCell(dist, i, j,
                            get_geo_distance(Meridian, LAT[i], Meridian, LAT[j])),
                   i, j + 1)

\* one iteration of for(ii in 1:n): the whole inner loop for row ii
OuterIteration ==
    /\ rpc = "dist"
    /\ distances' = InnerLoop(distances, ii, 1)
    /\ jj' = ii
    /\ IF ii < n
       THEN /\ ii' = ii + 1
            /\ UNCHANGED rpc
       ELSE /\ rpc' = "nng"
            /\ UNCHANGED ii
    /\ UNCHANGED <<n, LAT, A, g, sanity, varsPy>>

\* ---------------------------------------------------------------------- nng
Row(dx, i, m) == [j \in 1..m |-> dx[<<i, j>>]]

\* sort(dx[i,])
sort(s) == SortSeq(s, LAMBDA a, b: a < b)

\* cccd::nng with mutual=FALSE, up to graph.adjacency:
\*   for(i in 1:n){ d <- sort(dx[i,]); A[i, dx[i,] <= d[k+1]] <- 1 }; diag(A) <- 0
nngThresholdOffByOne(dx, k, m) ==
    LET d == [i \in 1..m |-> sort(Row(dx, i, m))]
    IN  [c \in (1..m) \X (1..m) |->
            IF c[1] # c[2] /\ dx[c] <= d[c[1]][k] THEN 1 ELSE 0]

nngAdjacency(dx, k, m) ==
    LET d == [i \in 1..m |-> sort(Row(dx, i, m))]
    IN  [c \in (1..m) \X (1..m) |->
            IF c[1] # c[2] /\ dx[c] <= d[c[1]][k + 1] THEN 1 ELSE 0]

\* nng(dx=distances, k=5, mutual=FALSE): defined when row i has a (k+1)-th entry
Nng ==
    /\ rpc = "nng"
    /\ n > K
    /\ A' = nngAdjacency(distances, K, n)
    /\ rpc' = "undirected"
    /\ UNCHANGED <<n, LAT, distances, ii, jj, g, sanity, varsPy>>

\* n <= k: sort(dx[i,])[k+1] does not exist; the run is not followed further
NngUndefined ==
    /\ rpc = "nng"
    /\ n <= K
    /\ rpc' = "stopped"
    /\ UNCHANGED <<n, LAT, distances, ii, jj, A, g, sanity, varsPy>>

\* ------------------------------------------------------------ as.undirected
\* cell number p of an m x m matrix, row by row
PairAt(p, m) == <<((p - 1) \div m) + 1, ((p - 1) % m) + 1>>

\* all ordered vertex pairs, row by row
AllCells(m) == [p \in 1..(m * m) |-> PairAt(p, m)]

\* mode = "each": one undirected edge per directed edge
as_undirected_each(adj, m) ==
    LET directed == SelectSeq(AllCells(m), LAMBDA c: adj[c] > 0)
    IN  [p \in DOMAIN directed |->
            <<Min2(directed[p][1], directed[p][2]), Max2(directed[p][1], directed[p][2])>>]

\* mode = "collapse" (the default): one undirected edge for each pair of
\* vertices connected by at least one directed edge
as_undirected(adj, m) ==
    SelectSeq(AllCells(m),
              LAMBDA c: c[1] <= c[2] /\ (adj[c] > 0 \/ adj[<<c[2], c[1]>>] > 0))

AsUndirected ==
    /\ rpc = "undirected"
    /\ g' = as_undirected(A, n)
    /\ rpc' = "sanity"
    /\ UNCHANGED <<n, LAT, distances, ii, jj, A, sanity, varsPy>>

\* ------------------------------------------------------------- sanity check
\* neighbors(g, v, "all"): the other endpoint of every edge incident to v
neighbors(graph, v) ==
    LET incident == SelectSeq(graph, LAMBDA e: e[1] = v \/ e[2] = v)
    IN  [p \in DOMAIN incident |->
            IF incident[p][1] = v THEN incident[p][2] ELSE incident[p][1]]

\* order(r): the indices of r sorted by value, ties in index order
order(r) ==
    SortSeq([i \in 1..Len(r) |-> i],
            LAMBDA a, b: r[a] < r[b] \/ (r[a] = r[b] /\ a < b))

\* closest.idx <- order(distances[1, ])[2:6]
closest_idx(dx, v, m) == SubSeq(order(Row(dx, v, m)), 2, K + 1)

\* all(sort(neighbor.idx) == sort(closest.idx))
SanityCheck ==
    /\ rpc = "sanity"
    /\ sanity' = (sort(neighbors(g, 1)) = sort(closest_idx(distances, 1, n)))
    /\ rpc' = "export"
    /\ UNCHANGED <<n, LAT, distances, ii, jj, A, g, varsPy>>

\* ------------------------------------------------------------------ SpecR
\* the notebook has not been started
\* a name no statement has assigned yet
Unset == [unset |-> TRUE]

\* the .grad of the parameters before any backward pass, and after zero_grad()
NoGrad == [state |-> "none"]

ZeroedGrad == [state |-> "zero"]

\* the second run before its training cell, with targets y2
NewTwin(y2) ==
    [y |-> y2, params |-> [version |-> 0, w |-> InitialWeight],
     grad |-> NoGrad, pred |-> Unset, loss |-> Unset]

IdlePy ==
    /\ pc = "idle"
    /\ num_nodes = 0
    /\ edge_index = <<>>
    /\ features = <<>>
    /\ x = <<>>
    /\ y = <<>>
    /\ train_size = 0
    /\ train_mask = <<>>
    /\ test_mask = <<>>
    /\ training = TRUE
    /\ params = [version |-> 0, w |-> InitialWeight]
    /\ grad = NoGrad
    /\ epo = 0
    /\ pred = Unset
    /\ loss = Unset
    /\ log = <<>>
    /\ calls = [zero_grad |-> 0, forward |-> 0, backward |-> 0, step |-> 0]
    /\ twin = NewTwin(<<>>)
    /\ test_pred = Unset
    /\ test_loss = Unset
    /\ baseline = Unset

InitR ==
    /\ rpc = "dist"
    /\ n \in 1..MaxN
    /\ LAT \in [1..n -> 0..MaxLat]
    /\ distances = NewMatrix(n)
    /\ ii = 1
    /\ jj = 1
    /\ A = <<>>
    /\ g = <<>>
    /\ sanity = "unset"
    /\ IdlePy

NextR == OuterIteration \/ Nng \/ NngUndefined \/ AsUndirected \/ SanityCheck

SpecR == InitR /\ [][NextR]_vars

\* =================================================================== notebook
\* the graph builder is not part of a notebook run
IdleR ==
    /\ rpc = "idle"
    /\ n = 0
    /\ LAT = <<>>
    /\ distances = <<>>
    /\ ii = 0
    /\ jj = 0
    /\ A = <<>>
    /\ g = <<>>
    /\ sanity = "unset"

\* ------------------------------------------------------------------- loading
\* dataset[0]: an undirected graph with edge set E (a set of two-element sets)
\* is held as an edge_index with both directions of every edge
create_pyg(E, m) == SelectSeq(AllCells(m), LAMBDA c: c[1] # c[2] /\ {c[1], c[2]} \in E)

AllPairs(m) == {{i, j} : i \in 1..m, j \in 1..m} \ {{i} : i \in 1..m}

PathGraph(m) == {{i, i + 1} : i \in 1..(m - 1)}

\* the graphs a notebook run of Spec is started on
RunGraphs(m) == {PathGraph(m), AllPairs(m)}

AltValues == {-2, 2}

\* --------------------------------------------------- degree / OneHotDegree
SeqMax(s) == CHOOSE m \in Range(s) : \A e \in Range(s) : e <= m

\* torch_geometric.utils.degree(index, num_nodes): occurrences of each vertex
degree(index, N) == [v \in 1..N |-> Cardinality({p \in DOMAIN index : index[p] = v})]

\* num_nodes=None: one more than the largest (0-based) index that occurs
maybe_num_nodes(index) == SeqMax(index)

\* g.edge_index[0]
SourceRow(ei) == [p \in DOMAIN ei |-> ei[p][1]]

\* max_deg = torch.max(degree(g.edge_index[0])).long().item()
max_deg(ei) == SeqMax(degree(SourceRow(ei), maybe_num_nodes(SourceRow(ei))))

\* F.one_hot(d, num_classes): entry d (0-based) is 1, the others 0
one_hot(d, num_classes) == [c \in 1..num_classes |-> IF c - 1 = d THEN 1 ELSE 0]

OneHotDegreeTooShort(max_degree, ei, N, feat) ==
    LET deg == degree(SourceRow(ei), N)
    IN  [v \in 1..N |-> feat[v] \o one_hot(deg[v], max_degree)]

\* transforms.OneHotDegree(max_degree)(g):
\*   deg = one_hot(degree(edge_index[0], num_nodes), max_degree + 1); x = cat([x, deg])
OneHotDegree(max_degree, ei, N, feat) ==
    LET deg == degree(SourceRow(ei), N)
    IN  [v \in 1..N |-> feat[v] \o one_hot(deg[v], max_degree + 1)]

AddDegree ==
    /\ pc = "degree"
    /\ edge_index # <<>>
    /\ x' = OneHotDegree(max_deg(edge_index), edge_index, num_nodes, x)
    /\ pc' = "masks"
    /\ UNCHANGED <<num_nodes, edge_index, features, y, varsM, varsT, varsE, varsR>>

\* torch.max of an empty tensor raises: a graph without edges stops the run
AddDegreeError ==
    /\ pc = "degree"
    /\ edge_index = <<>>
    /\ pc' = "error_degree"
    /\ UNCHANGED <<varsG, varsM, varsT, varsE, varsR>>

\* ---------------------------------------------------- make_train_test_masks
intRoundNearest(t) == IF t >= 0 THEN (t + 5) \div 10 ELSE -((5 - t) \div 10)

\* int(train_size): truncation toward zero of a number held in tenths
int(t) == IF t >= 0 THEN t \div 10 ELSE -((-t) \div 10)

unshuffled_train_inclusive(data_size, ts) ==
    [p \in 1..data_size |-> int(ts) >= p - 1]

\* int(train_size) > torch.arange(data_size)
unshuffled_train(data_size, ts) == [p \in 1..data_size |-> int(ts) > p - 1]

\* ~mask
Not(mask) == [p \in DOMAIN mask |-> ~mask[p]]

\* perm is the value of torch.randperm(data_size)
make_train_test_masks(data_size, ts, perm) ==
    LET tm == [p \in 1..data_size |-> unshuffled_train(data_size, ts)[perm[p]]]
    IN  <<tm, Not(tm)>>

\* 0.2 * g.num_nodes, in tenths
ReferenceTrainSize(N) == 2 * N

\* the train sizes a run is started with: the reference 0.2 * num_nodes and
\* the multiples of 0.5 from -1 to num_nodes + 1
TrainSizes(N) == {ReferenceTrainSize(N)} \cup {10 * c + f : c \in (-1)..(N + 1), f \in {0, 5}}

MakeMasks ==
    /\ pc = "masks"
    /\ \E perm \in Permutations(1..num_nodes) :
        LET m == make_train_test_masks(num_nodes, train_size, perm)
        IN  /\ train_mask' = m[1]
            /\ test_mask' = m[2]
    /\ pc' = "model"
    /\ UNCHANGED <<varsG, train_size, varsT, varsE, varsR>>

\* ------------------------------------------------------------ training cell
\* x[mask]: the rows a boolean mask selects, in ascending order
BoolIndex(mask) == SelectSeq([p \in 1..Len(mask) |-> p], LAMBDA p: mask[p])

RECURSIVE SumSeq(_)
SumSeq(s) == IF s = <<>> THEN 0 ELSE Head(s) + SumSeq(Tail(s))

\* what the graph convolution feeds the weight for vertex v: the features of v
\* and of its neighbours (the sources of the edges into v), summed
Aggregate(v) ==
    SumSeq(x[v]) +
    SumSeq([p \in DOMAIN edge_index |->
               IF edge_index[p][2] = v THEN SumSeq(x[edge_index[p][1]]) ELSE 0])

\* model(g): one output per vertex; it carries the mode and the parameters it
\* was computed with.  The network is reduced to one weight, and the dropout
\* mask of a training-mode pass is fixed by the seed, the same in both runs.
forward(mode, ps) ==
    [training |-> mode,
     version |-> ps.version,
     out |-> [v \in 1..num_nodes |-> (ps.w * Aggregate(v)) % Modulus]]

\* nn.MSELoss() of input[mask_in] against targets[mask_y]; the mean of no element is nan
crit(input, mask_in, targets, mask_y) ==
    LET rows == BoolIndex(mask_in)
        target_rows == BoolIndex(mask_y)
    IN  [input |-> input,
         rows |-> rows,
         target_rows |-> target_rows,
         residual |-> [k \in DOMAIN rows |-> input.out[rows[k]] - targets[target_rows[k]]],
         value |-> IF rows = <<>> THEN "nan" ELSE "number"]

LossMaskAllVertices == [v \in 1..num_nodes |-> TRUE]

\* the mask of the training loss: g.train_mask
LossMask == train_mask

\* loss.backward(): the gradient of the squared error with respect to the weight
backward(l) ==
    [of |-> l,
     value |-> SumSeq([k \in DOMAIN l.rows |-> l.residual[k] * Aggregate(l.rows[k])]) % Modulus]

\* optimizer.step(): the new weight is a function of the old one and the gradient
optimizer_step(ps, gr) ==
    [version |-> ps.version + 1, w |-> (ps.w - gr.value) % Modulus]

\* model = Model(...); optimizer = Adam(...); crit = MSELoss(); model.train()
ModelTrain ==
    /\ pc = "model"
    /\ training' = TRUE
    /\ params' = [version |-> 0, w |-> InitialWeight]
    /\ twin' = [twin EXCEPT !.params = [version |-> 0, w |-> InitialWeight]]
    /\ calls' = [zero_grad |-> 0, forward |-> 0, backward |-> 0, step |-> 0]
    /\ epo' = 0
    /\ pc' = "zero_grad"
    /\ UNCHANGED <<varsG, varsM, grad, pred, loss, log, varsE, varsR>>

\* optimizer.zero_grad()
ZeroGrad ==
    /\ pc = "zero_grad"
    /\ grad' = ZeroedGrad
    /\ twin' = [twin EXCEPT !.grad = ZeroedGrad]
    /\ calls' = [calls EXCEPT !.zero_grad = @ + 1]
    /\ pc' = "forward"
    /\ UNCHANGED <<varsG, varsM, training, params, epo, pred, loss, log, varsE, varsR>>

\* pred = model(g)
Forward ==
    /\ pc = "forward"
    /\ pred' = forward(training, params)
    /\ twin' = [twin EXCEPT !.pred = forward(training, twin.params)]
    /\ calls' = [calls EXCEPT !.forward = @ + 1]
    /\ pc' = "loss"
    /\ UNCHANGED <<varsG, varsM, training, params, grad, epo, loss, log, varsE, varsR>>

\* loss = crit(pred[g.train_mask], g.y[g.train_mask])
ComputeLoss ==
    /\ pc = "loss"
    /\ loss' = crit(pred, LossMask, y, LossMask)
    /\ twin' = [twin EXCEPT !.loss = crit(twin.pred, LossMask, twin.y, LossMask)]
    /\ pc' = "backward"
    /\ UNCHANGED <<varsG, varsM, training, params, grad, epo, pred, log, calls, varsE, varsR>>

\* loss.backward()
Backward ==
    /\ pc = "backward"
    /\ grad' = backward(loss)
    /\ twin' = [twin EXCEPT !.grad = backward(twin.loss)]
    /\ calls' = [calls EXCEPT !.backward = @ + 1]
    /\ pc' = "step"
    /\ UNCHANGED <<varsG, varsM, training, params, epo, pred, loss, log, varsE, varsR>>

\* optimizer.step()
OptimizerStep ==
    /\ pc = "step"
    /\ params' = optimizer_step(params, grad)
    /\ twin' = [twin EXCEPT !.params = optimizer_step(twin.params, twin.grad)]
    /\ calls' = [calls EXCEPT !.step = @ + 1]
    /\ pc' = "log"
    /\ UNCHANGED <<varsG, varsM, training, grad, epo, pred, loss, log, varsE, varsR>>

EpochAdvanceOneMore ==
    IF epo + 1 <= NumEpochs
    THEN /\ epo' = epo + 1
         /\ pc' = "zero_grad"
    ELSE /\ epo' = epo
         /\ pc' = "eval"

\* for epo in range(...): the next iteration, or the end of the cell
EpochAdvance ==
    IF epo + 1 < NumEpochs
    THEN /\ epo' = epo + 1
         /\ pc' = "zero_grad"
    ELSE /\ epo' = epo
         /\ pc' = "eval"

\* if epo % 500 == 0: print(loss.item())
LogLoss ==
    /\ pc = "log"
    /\ epo % LogEvery = 0
    /\ log' = Append(log, epo)
    /\ EpochAdvance
    /\ UNCHANGED <<varsG, varsM, training, params, grad, pred, loss, calls, twin, varsE, varsR>>

SkipLog ==
    /\ pc = "log"
    /\ epo % LogEvery # 0
    /\ EpochAdvance
    /\ UNCHANGED <<varsG, varsM, training, params, grad, pred, loss, log, calls, twin, varsE, varsR>>

\* ---------------------------------------------------------- evaluation cell
\* model.eval()
ModelEval ==
    /\ pc = "eval"
    /\ training' = FALSE
    /\ pc' = "test_pred"
    /\ UNCHANGED <<varsG, varsM, params, grad, epo, pred, loss, log, calls, twin, varsE, varsR>>

\* test_pred = model(g)
TestForward ==
    /\ pc = "test_pred"
    /\ test_pred' = forward(training, params)
    /\ pc' = "test_loss"
    /\ UNCHANGED <<varsG, varsM, varsT, test_loss, baseline, varsR>>

\* test_loss = crit(pred[g.test_mask], g.y[g.test_mask]).item(); print(test_loss)
TestLoss ==
    /\ pc = "test_loss"
    /\ test_loss' = crit(pred, test_mask, y, test_mask)
    /\ pc' = "baseline"
    /\ UNCHANGED <<varsG, varsM, varsT, test_pred, baseline, varsR>>

\* ------------------------------------------------------------ baseline cell
BaselineXDegreeColumn == [v \in 1..num_nodes |-> x[v][2]]

\* X = g.x[:, 0].unsqueeze(1).numpy(): the first column of every row
BaselineX == [v \in 1..num_nodes |-> x[v][1]]

\* lm.fit(X[train_mask], y[train_mask]); yhat = reg.predict(X[~train_mask]);
\* crit(torch.from_numpy(yhat), g.y[g.test_mask])
Baseline ==
    /\ pc = "baseline"
    /\ BoolIndex(train_mask) # <<>>
    /\ BoolIndex(Not(train_mask)) # <<>>
    /\ baseline' = [X |-> BaselineX,
                    fit_rows |-> BoolIndex(train_mask),
                    fit_target_rows |-> BoolIndex(train_mask),
                    predict_rows |-> BoolIndex(Not(train_mask)),
                    target_rows |-> BoolIndex(test_mask)]
    /\ pc' = "done"
    /\ UNCHANGED <<varsG, varsM, varsT, test_pred, test_loss, varsR>>

\* scikit-learn refuses to fit or to predict on an array of 0 samples
BaselineError ==
    /\ pc = "baseline"
    /\ (BoolIndex(train_mask) = <<>> \/ BoolIndex(Not(train_mask)) = <<>>)
    /\ pc' = "error_baseline"
    /\ UNCHANGED <<varsG, varsM, varsT, varsE, varsR>>

\* ----------------------------------------------------------- specifications
\* the state after the loading cell, for a graph with edge set E
Loaded(N, E) ==
    /\ IdleR
    /\ pc = "degree"
    /\ num_nodes = N
    /\ edge_index = create_pyg(E, N)
    /\ features \in [1..N -> AltValues]
    /\ x = [v \in 1..N |-> <<features[v]>>]
    /\ train_size \in TrainSizes(N)
    /\ train_mask = <<>>
    /\ test_mask = <<>>
    /\ training = TRUE
    /\ params = [version |-> 0, w |-> InitialWeight]
    /\ grad = NoGrad
    /\ epo = 0
    /\ pred = Unset
    /\ loss = Unset
    /\ log = <<>>
    /\ calls = [zero_grad |-> 0, forward |-> 0, backward |-> 0, step |-> 0]
    /\ test_pred = Unset
    /\ test_loss = Unset
    /\ baseline = Unset

\* the targets of the runs of Spec and SpecFeat
RunTargets(N) == [v \in 1..N |-> v % 2]

Init ==
    \E N \in 1..MaxNodes : \E E \in RunGraphs(N) :
        /\ y = RunTargets(N)
        /\ twin = NewTwin(y)
        /\ Loaded(N, E)

Next ==
    \/ AddDegree \/ AddDegreeError \/ MakeMasks
    \/ ModelTrain \/ ZeroGrad \/ Forward \/ ComputeLoss \/ Backward \/ OptimizerStep
    \/ LogLoss \/ SkipLog
    \/ ModelEval \/ TestForward \/ TestLoss
    \/ Baseline \/ BaselineError

Spec == Init /\ [][Next]_vars

\* two target vectors over the same graph, features, masks and seed: the run
\* on y and the run on twin.y go through the training cell side by side
TargetValues == {0, 1}

InitTrain ==
    \E N \in 1..MaxTrainNodes :
        /\ y \in [1..N -> TargetValues]
        /\ Loaded(N, PathGraph(N))
        /\ features = [v \in 1..N |-> IF v % 2 = 0 THEN -2 ELSE 2]
        /\ \E y2 \in [1..N -> TargetValues] : twin = NewTwin(y2)

SpecTrain == InitTrain /\ [][Next]_vars

\* the runs of Spec on the smaller graphs
InitLoop ==
    \E N \in 1..MaxTrainNodes : \E E \in RunGraphs(N) :
        /\ y = RunTargets(N)
        /\ twin = NewTwin(y)
        /\ Loaded(N, E)

\* the notebook is a sequential program: a statement that can run does run
SpecLoop == InitLoop /\ [][Next]_vars /\ WF_vars(Next)

\* the degree cell alone, over every simple graph on up to MaxGraphNodes vertices
InitFeat ==
    \E N \in 1..MaxGraphNodes : \E E \in SUBSET AllPairs(N) :
        /\ y = RunTargets(N)
        /\ twin = NewTwin(y)
        /\ Loaded(N, E)
        /\ train_size = ReferenceTrainSize(N)

NextFeat == AddDegree \/ AddDegreeError

SpecFeat == InitFeat /\ [][NextFeat]_vars

\* ============================================================ notebook claims
CountTrue(mask) == Cardinality({v \in DOMAIN mask : mask[v]})

MasksMade == pc \notin {"idle", "degree", "masks", "error_degree"}

TestLossComputed == pc \in {"baseline", "done", "error_baseline"}

\* C1 as stated: the prediction vector indexed by the test mask for the
\* reported test loss comes from a forward pass run after model.eval().
C1_TestLossFromEvalPass ==
    TestLossComputed => test_loss.input.training = FALSE

\* C2 as stated: the predictions used for the reported test loss were computed
\* with the parameters left by the last optimizer.step().
C2_TestLossFromFinalParams ==
    TestLossComputed => test_loss.input.version = params.version

\* C3: for 0 <= int(train_size) <= data_size the masks have length data_size,
\* every vertex is in exactly one of them, and the train mask has exactly
\* int(train_size) True entries.
C3_MasksPartition ==
    (MasksMade /\ 0 <= int(train_size) /\ int(train_size) <= num_nodes) =>
        /\ Len(train_mask) = num_nodes
        /\ Len(test_mask) = num_nodes
        /\ \A v \in 1..num_nodes : train_mask[v] # test_mask[v]
        /\ CountTrue(train_mask) = int(train_size)

\* a proper split whose train vertices are not the first int(train_size) ones
C3_Witness ==
    /\ MasksMade
    /\ 0 < int(train_size)
    /\ int(train_size) < num_nodes
    /\ \E v \in 1..num_nodes : \E w \in 1..num_nodes :
        v < w /\ ~train_mask[v] /\ train_mask[w]

\* the call of the notebook: make_train_test_masks(g.num_nodes, 0.2 * g.num_nodes)
ReferenceRun == train_size = 2 * num_nodes

\* C4 as stated: the reference run puts 80% of the vertices in the train mask
\* and 20% in the test mask.
C4_Original ==
    (MasksMade /\ ReferenceRun) =>
        /\ CountTrue(train_mask) = (8 * num_nodes) \div 10
        /\ CountTrue(test_mask) = num_nodes - (8 * num_nodes) \div 10

\* C4 amended: the reference run puts 20% of the vertices (rounded down) in
\* the train mask and the remaining 80% in the test mask.
C4_ReferenceSplit ==
    (MasksMade /\ ReferenceRun) =>
        /\ CountTrue(train_mask) = num_nodes \div 5
        /\ CountTrue(test_mask) = num_nodes - num_nodes \div 5

C4_Witness ==
    /\ MasksMade
    /\ ReferenceRun
    /\ num_nodes = 5
    /\ CountTrue(train_mask) = 1
    /\ CountTrue(test_mask) = 4

\* C5: the baseline is fitted on exactly the train-masked vertices, predicts
\* exactly the test-masked vertices in the order of g.y[g.test_mask], and its
\* only feature is the scaled altitude.
C5_Baseline ==
    pc = "done" =>
        /\ Range(baseline.fit_rows) = {v \in 1..num_nodes : train_mask[v]}
        /\ Len(baseline.fit_rows) = CountTrue(train_mask)
        /\ baseline.fit_target_rows = baseline.fit_rows
        /\ Range(baseline.predict_rows) = {v \in 1..num_nodes : test_mask[v]}
        /\ baseline.predict_rows = baseline.target_rows
        /\ \A v \in 1..num_nodes : baseline.X[v] = features[v]

\* a baseline over a graph whose degree columns differ from the altitude column
C5_Witness ==
    /\ pc = "done"
    /\ Len(baseline.fit_rows) >= 2
    /\ Len(baseline.predict_rows) >= 2
    /\ \E v \in 1..num_nodes : Len(x[v]) >= 3 /\ x[v][2] # x[v][1]

\* the undirected degree of v: the number of vertices joined to v by an entry
\* of edge_index in either direction
UndirectedDegree(v) ==
    Cardinality({u \in 1..num_nodes :
        <<v, u>> \in Range(edge_index) \/ <<u, v>> \in Range(edge_index)})

MaxUndirectedDegree ==
    CHOOSE d \in {UndirectedDegree(v) : v \in 1..num_nodes} :
        \A v \in 1..num_nodes : UndirectedDegree(v) <= d

DegreeAdded == pc = "masks"

\* C9: after the degree transform every row of the feature matrix is the
\* scaled altitude followed by a one-hot vector of length max_degree + 1 whose
\* single 1 is at the index of the vertex's undirected degree.
C9_OneHotDegree ==
    DegreeAdded =>
        /\ Len(x) = num_nodes
        /\ \A v \in 1..num_nodes :
            /\ Len(x[v]) = 1 + MaxUndirectedDegree + 1
            /\ x[v][1] = features[v]
            /\ \A c \in 0..MaxUndirectedDegree :
                x[v][c + 2] = (IF c = UndirectedDegree(v) THEN 1 ELSE 0)

\* vertices of different degrees, one of them isolated
C9_Witness ==
    /\ DegreeAdded
    /\ \E v \in 1..num_nodes : UndirectedDegree(v) = 0
    /\ \E v \in 1..num_nodes : UndirectedDegree(v) = MaxUndirectedDegree
    /\ MaxUndirectedDegree >= 2

Degenerate == int(train_size) = 0 \/ int(train_size) >= num_nodes

\* C10 as stated: with an empty train or test partition the run stops instead
\* of returning masks and going on to training and evaluation.
C10_DegenerateSplitStops ==
    Degenerate => ~MasksMade

\* ======================================================== graph builder claims
\* ------------------------------------------------------- two runs side by side
InTrainingLoop == pc \in {"zero_grad", "forward", "loss", "backward", "step", "log"}

TrainingStarted == MasksMade /\ pc # "model"

\* the two runs have the same targets on every train-masked vertex
SameTrainTargets == \A v \in 1..num_nodes : train_mask[v] => y[v] = twin.y[v]

\* C11: the training loss is taken over exactly the train-masked vertices, and
\* two runs that start from the same parameters, features, edges, masks and
\* train targets and differ only in the targets of test-masked vertices have
\* identical parameters after every epoch.
C11_TestTargetsDoNotLeak ==
    /\ pc \in {"backward", "step"} =>
           /\ loss.rows = BoolIndex(train_mask)
           /\ loss.target_rows = BoolIndex(train_mask)
           /\ twin.loss.rows = BoolIndex(train_mask)
    /\ (TrainingStarted /\ SameTrainTargets) => twin.params = params

\* two runs whose targets differ on a test vertex that feeds the network, after
\* at least two parameter updates that moved the weight
C11_Witness ==
    /\ TrainingStarted
    /\ SameTrainTargets
    /\ \E v \in 1..num_nodes : test_mask[v] /\ y[v] # twin.y[v] /\ Aggregate(v) % Modulus # 0
    /\ params.version >= 2
    /\ params.w # InitialWeight

\* ------------------------------------------------------------ the epoch loop
AfterTrainingLoop ==
    pc \in {"eval", "test_pred", "test_loss", "baseline", "done", "error_baseline"}

\* the epochs below e whose loss is printed, in order
LoggedBefore(e) == SelectSeq([k \in 1..e |-> k - 1], LAMBDA k: k % LogEvery = 0)

\* inside the loop: training mode, and in epoch epo every statement has run
\* epo times, or once more when the epoch is past it
LoopProgress ==
    InTrainingLoop =>
        /\ training = TRUE
        /\ epo \in 0..(NumEpochs - 1)
        /\ calls.zero_grad = epo + (IF pc = "zero_grad" THEN 0 ELSE 1)
        /\ calls.forward = epo + (IF pc \in {"zero_grad", "forward"} THEN 0 ELSE 1)
        /\ calls.step = epo + (IF pc = "log" THEN 1 ELSE 0)
        /\ params.version = calls.step
        /\ pc \in {"loss", "backward", "step", "log"} => pred.training = TRUE
        /\ log = LoggedBefore(epo)

\* after the loop: exactly NumEpochs resets, forward passes and updates, and
\* the loss printed at the multiples of LogEvery below NumEpochs
LoopOutcome ==
    AfterTrainingLoop =>
        /\ calls.zero_grad = NumEpochs
        /\ calls.forward = NumEpochs
        /\ calls.backward = NumEpochs
        /\ calls.step = NumEpochs
        /\ params.version = NumEpochs
        /\ pred.training = TRUE
        /\ log = LoggedBefore(NumEpochs)

\* the statement after the update only prints: parameters, call counts and
\* the second run are as before, and the epoch moves on as range() says
LoggingIsPassive ==
    pc = "log" =>
        /\ params' = params
        /\ calls' = calls
        /\ twin' = twin
        /\ \/ epo' = epo + 1 /\ pc' = "zero_grad" /\ epo + 1 < NumEpochs
           \/ epo' = epo /\ pc' = "eval" /\ epo + 1 = NumEpochs

\* C12: the training loop always terminates after exactly NumEpochs epochs, with
\* one gradient reset, one forward pass and one parameter update per epoch, in
\* training mode throughout and without early exit; the loss is logged exactly
\* at the epochs e with e % LogEvery = 0, and logging changes neither the
\* parameters nor the number of epochs run.
C12_TrainingLoopTerminates ==
    /\ [](LoopProgress /\ LoopOutcome)
    /\ [][LoggingIsPassive]_vars
    /\ (pc = "zero_grad" /\ epo = 0) ~> (pc = "eval")

\* the loop has just ended: all epochs run, some logged and some not
C12_Witness ==
    /\ pc = "eval"
    /\ calls.step = NumEpochs
    /\ epo = NumEpochs - 1
    /\ Len(log) >= 2
    /\ Len(log) < NumEpochs

LoopFinished == rpc \in {"nng", "undirected", "sanity", "export", "stopped"}
\* as.undirected has returned; n, distances and g are not assigned again
GraphBuilt == rpc = "sanity"

\* C6: once the distance loop has finished, the matrix is symmetric, its
\* diagonal is zero and no cell still holds the initial -1.
C6_DistanceMatrix ==
    LoopFinished =>
        \A i \in 1..n : \A j \in 1..n :
            /\ distances[<<i, j>>] = distances[<<j, i>>]
            /\ distances[<<i, i>>] = 0
            /\ distances[<<i, j>>] # (-1) * KmScale

C6_Witness ==
    /\ LoopFinished
    /\ n >= 3
    /\ \E i \in 1..n : \E j \in 1..n : i < j /\ distances[<<i, j>>] > 0

\* j is among the k nearest of i: fewer than k other vertices are strictly
\* nearer to i than j is (vertices tied with the k-th nearest all count).
AmongKNearest(i, j) ==
    /\ j # i
    /\ Cardinality({l \in (1..n) \ {i} : distances[<<i, l>>] < distances[<<i, j>>]}) < K

\* the pairs <<i, j>> with j among the k nearest of i
Selections == {c \in (1..n) \X (1..n) : AmongKNearest(c[1], c[2])}

HasEdge(i, j) == <<Min2(i, j), Max2(i, j)>> \in Range(g)

\* C7: with n > k the undirected graph has the edge {i,j} exactly when j is
\* among the k nearest of i or i among the k nearest of j; it has no
\* self-loop and no multi-edge, and the degree of every vertex is the number
\* of distinct vertices it selected or that selected it, at least k.
C7_UndirectedKnn ==
    (GraphBuilt /\ n > K) =>
        LET sel == Selections
            edges == Range(g)
        IN  /\ \A i \in 1..n : \A j \in (i + 1)..n :
                (<<i, j>> \in edges) <=> (<<i, j>> \in sel \/ <<j, i>> \in sel)
            /\ \A p \in DOMAIN g : g[p][1] < g[p][2]
            /\ Cardinality(edges) = Len(g)
            /\ \A v \in 1..n :
                LET deg == Len(neighbors(g, v))
                IN  /\ deg = Cardinality({u \in (1..n) \ {v} :
                                <<v, u>> \in sel \/ <<u, v>> \in sel})
                    /\ deg >= K

\* an edge that only one endpoint selected, and one that both selected
C7_Witness ==
    /\ GraphBuilt
    /\ n > K
    /\ \E i \in 1..n : \E j \in 1..n :
        /\ HasEdge(i, j) /\ AmongKNearest(i, j) /\ ~AmongKNearest(j, i)
    /\ \E i \in 1..n : \E j \in 1..n :
        /\ HasEdge(i, j) /\ AmongKNearest(i, j) /\ AmongKNearest(j, i)

\* order() of row v with v itself left out: the other vertices by increasing
\* distance from v, ties in index order
OthersByDistance(v) == SelectSeq(order(Row(distances, v, n)), LAMBDA u: u # v)

\* the k vertices other than v with the smallest entries in row v
KClosestOthers(v) == Range(SubSeq(OthersByDistance(v), 1, K))

NeighborSet(v) == Range(neighbors(g, v))

\* the k-th smallest entry of row v, v itself left out
KthDistance(v) == distances[<<v, OthersByDistance(v)[K]>>]

\* C8 as stated: the neighbours of every vertex are exactly its k = 5 closest.
C8_Original ==
    (GraphBuilt /\ n > K) => \A v \in 1..n : NeighborSet(v) = KClosestOthers(v)

\* C8 amended: the neighbours of every vertex include its k = 5 closest; every
\* further neighbour has v among its own k nearest or is tied with v's k-th
\* closest.
C8_NeighborsIncludeClosest ==
    (GraphBuilt /\ n > K) =>
        \A v \in 1..n :
            LET closest == KClosestOthers(v)
                nbrs == NeighborSet(v)
                kth == KthDistance(v)
            IN  /\ closest \subseteq nbrs
                /\ \A u \in nbrs \ closest :
                    AmongKNearest(u, v) \/ distances[<<v, u>>] = kth

\* a vertex without ties at its k-th closest that has a sixth neighbour
C8_Witness ==
    /\ GraphBuilt
    /\ n > K
    /\ \E v \in 1..n :
        /\ Cardinality(NeighborSet(v)) > K
        /\ \A u \in (1..n) \ ({v} \cup KClosestOthers(v)) :
            distances[<<v, u>>] > KthDistance(v)
====
